---- MODULE Spec2Model ----
(***************************************************************************)
(* Model of src/rt/cpp/vobject.h: the capability probes (has_notified,     *)
(* has_finaliser, has_destructor), the per-type descriptor built by        *)
(* VBase<T, Base>::desc(), the allocation entry points of V<T> and         *)
(* VCown<T>, the operator delete overloads of VBase and the descriptor     *)
(* callbacks gc_trace, gc_notified, gc_final and gc_destructor.            *)
(*                                                                         *)
(* One behaviour follows one user type T, chosen in Init from every        *)
(* combination of the properties the header inspects, in a build with or   *)
(* without NDEBUG.                                                         *)
(*   SpecDesc: NThreads threads request T's descriptor concurrently.       *)
(*   Spec:     one thread requests the descriptor, runs new-expressions    *)
(*             and calls operator delete, while the external runtime       *)
(*             invokes the callbacks of the registered objects.            *)
(***************************************************************************)
EXTENDS Integers, Sequences, FiniteSets, TLC

\* ---------------------------------------------------------------- bounds
NThreads == 2
MaxObjects == 1
SizeofT == 1
MaxReq == 3

\* sizeof(Object::Header): the header that precedes every managed value
HeaderSize == 1

Threads == 1..NThreads
ReqSizes == 0..MaxReq
RegionArgs == {"regionA", "regionB"}

NULL == "nullptr"
NoMem == [size |-> 0, state |-> "none"]
NullMem == [size |-> 0, state |-> "null"]
NoRet == [addr |-> NULL, via |-> "none", seen |-> <<>>]
NoCall == [method |-> "none", self |-> 0, args |-> <<>>]
NoHook == [fn |-> "none", args |-> <<>>, called |-> NoCall, out |-> <<>>]

\* ------------------------------------------------------- the user type T
\* How T declares a member of a given name: not at all, as one accessible
\* member function, or as an overload set of that name.
MemberShapes == {"none", "single", "overloaded"}
Bases == {"Object", "Cown"}
RegionTypes == {"Trace", "Arena"}

UserTypes ==
  [base : Bases,
   notified : MemberShapes,
   finaliser : MemberShapes,
   trivial : BOOLEAN,
   trace : BOOLEAN]

\* T declares a member under that name (whatever its shape)
Declares(shape) == shape # "none"

\* decltype(&T::m) is well-formed: the name denotes exactly one member whose
\* address can be taken without a target type; for an absent name or an
\* overload set the substitution fails and the primary template is chosen.
AddressOfWellFormed(shape) == shape = "single"

has_notified(ty) == AddressOfWellFormed(ty.notified)

has_finaliser(ty) == AddressOfWellFormed(ty.finaliser)

has_destructor_negation_dropped(ty) == ty.trivial

has_destructor(ty) == ~ty.trivial

\* vsizeof<T>: the storage of T including the object header
vsizeof == SizeofT + HeaderSize

\* the outgoing references a user-defined T::trace pushes
UserRefs == <<"ref">>

Stacks == {<<"s">>}

\* ------------------------------------------------- descriptor callbacks
\* The call each wrapper makes on T, and the stack it leaves behind.
VBase_trace(st) == st

gc_trace(ty, o, st) ==
  [called |-> [method |-> IF ty.trace THEN "T::trace" ELSE "VBase::trace",
               self |-> o, args |-> <<st>>],
   out |-> IF ty.trace THEN st \o UserRefs ELSE VBase_trace(st)]

gc_notified(ty, o) ==
  [called |-> IF has_notified(ty)
                THEN [method |-> "T::notified", self |-> o, args |-> <<o>>]
                ELSE NoCall,
   out |-> <<>>]

gc_final_swapped(ty, o, region, sub_regions) ==
  [called |-> IF has_finaliser(ty)
                THEN [method |-> "T::finaliser", self |-> o,
                      args |-> <<sub_regions, region>>]
                ELSE NoCall,
   out |-> <<>>]

gc_final(ty, o, region, sub_regions) ==
  [called |-> IF has_finaliser(ty)
                THEN [method |-> "T::finaliser", self |-> o,
                      args |-> <<region, sub_regions>>]
                ELSE NoCall,
   out |-> <<>>]

\* ((T*)o)->~T(): the destructor of T runs on the object, once
gc_destructor(obj) == [obj EXCEPT !.dtorRuns = @ + 1]

\* ------------------------------------------------------------ descriptor
FieldNames == <<"size", "trace", "finaliser", "notified", "destructor">>
NFields == Len(FieldNames)
\* the storage of a static before its initialisation: zero-initialised
EmptyDescriptor == <<0, NULL, NULL, NULL, NULL>>

\* the initialiser of the function-local static of desc(), field by field
DescriptorInit(ty) ==
  <<vsizeof,
    "gc_trace",
    IF has_finaliser(ty) THEN "gc_final" ELSE NULL,
    IF has_notified(ty) THEN "gc_notified" ELSE NULL,
    IF has_destructor(ty) THEN "gc_destructor" ELSE NULL>>

\* the address of the static of VBase<T, Base>::desc
DescAddr(base) == <<"VBase::desc", base>>

OtherBase(base) == IF base = "Object" THEN "Cown" ELSE "Object"

desc_result_of_local(ty, t) == <<"local of desc()", ty.base>>

\* the value desc() returns to thread t
desc_result(ty, t) == DescAddr(ty.base)

\* a function-local static is initialised by the first thread to reach it;
\* a thread that finds the initialisation running waits for it
StaticInitUnguarded(g) == g # "done"

StaticInitMustRun(g) == g = "uninit"

\* the descriptor an entry point hands to the collaborator: the result of
\* its own desc() call
DescArgOtherBase(ty, e, d) ==
  IF e = "cown_sized" THEN DescAddr(OtherBase(ty.base)) ELSE d

DescArg(ty, e, d) == d

AllEntryPoints == {"plain", "region", "cown", "cown_alloc", "cown_sized"}
OwnerEntryPoints == {"cown", "cown_alloc", "cown_sized"}

\* the entry points T inherits: V<T> for an Object, VCown<T> for a Cown
EntryPoints(ty) ==
  IF ty.base = "Object" THEN {"plain", "region"} ELSE OwnerEntryPoints

NoArg == [req |-> 0, rt |-> "none"]

\* the placement arguments of each entry point: a RegionType, a requested
\* size, or none that the model needs to tell apart
EntryArgs(e) ==
  CASE e = "region" -> [req : {0}, rt : RegionTypes]
    [] e = "cown_sized" -> [req : ReqSizes, rt : {"none"}]
    [] OTHER -> {NoArg}

\* assert(req_size >= base_size): base_size is the sizeof(T) the
\* new-expression passes as the first argument of operator new
SizedAssertHolds(base_size, req_size) == req_size >= base_size

\* the number of bytes an owner entry point asks the allocator for
AllocRequest(e, a) == IF e = "cown_sized" THEN a.req ELSE vsizeof

\* the operator delete overloads of VBase
DeleteOverloads ==
  {"(void*)", "(void*, size_t)", "(void*, Alloc&)", "(void*, Object*)",
   "(void*, Alloc&, Object*)", "(void*, RegionType)"}

\* the deallocation function a throwing constructor unwinds through
MatchingDelete(e) ==
  CASE e = "plain" -> "(void*)"
    [] e = "region" -> "(void*, RegionType)"
    [] e = "cown" -> "(void*)"
    [] e = "cown_alloc" -> "(void*, Alloc&)"
    [] OTHER -> "(void*, size_t)"

operator_delete_releases(objs, v, p) ==
  [i \in DOMAIN objs |->
     IF i = p THEN [objs[i] EXCEPT !.freed = TRUE] ELSE objs[i]]

\* every overload v has an empty body: the registered objects are left as
\* they were, whatever pointer p is passed
operator_delete(objs, v, p) == objs

\* ---------------------------------------------- collaborator (external)
\* Object::register_object(base, desc): advances past the header, stores
\* the descriptor in it and returns the object
register_object(mem, d, kind) ==
  [size |-> mem.size, null |-> (mem.state = "null"), desc |-> d,
   kind |-> kind, region |-> 0, root |-> FALSE,
   constructed |-> FALSE, freed |-> FALSE,
   destroyCalls |-> 0, dtorRuns |-> 0]

VARIABLES
  T,              \* the user type the adapters are instantiated with
  assertsEnabled, \* FALSE in an NDEBUG build: assert() expands to nothing
  aborted,        \* the process was terminated by a failed assert
  guard,          \* initialisation state of the static in desc()
  descObj,        \* the fields of that static
  constructions,  \* completed initialisations of that static
  thr,            \* per thread: position and locals of the running call
  objects,        \* registered objects, in registration order
  regions,        \* regions created by create_fresh_region
  hook            \* the last callback the runtime invoked and what it did

vars == <<T, assertsEnabled, aborted, guard, descObj, constructions, thr,
          objects, regions, hook>>

build == <<T, assertsEnabled>>
descVars == <<guard, descObj, constructions>>
memVars == <<objects, regions>>

IdleThread ==
  [pc |-> "idle", op |-> "none", arg |-> NoArg, mem |-> NoMem, dsc |-> NoRet,
   pos |-> 0, obj |-> 0, steps |-> <<>>]

InitCommon ==
  /\ T \in UserTypes
  \* the only assert is in VCown: for a V<T> both builds are the same code
  /\ assertsEnabled \in IF T.base = "Cown" THEN BOOLEAN ELSE {TRUE}
  /\ aborted = FALSE
  /\ guard = "uninit"
  /\ descObj = EmptyDescriptor
  /\ constructions = 0
  /\ objects = <<>>
  /\ regions = <<>>
  /\ hook = NoHook

\* one thread uses the layer
Init ==
  /\ InitCommon
  /\ thr = [t \in {1} |-> IdleThread]

\* NThreads threads use the layer
InitDesc ==
  /\ InitCommon
  /\ thr = [t \in Threads |-> IdleThread]

InFlight ==
  Cardinality({t \in DOMAIN thr : thr[t].op \in AllEntryPoints
                                  /\ thr[t].obj = 0})

\* a desc() call returns: the caller holds the address and reads the
\* descriptor behind it
Returned(th, t, via, snapshot) ==
  [th EXCEPT !.pc = IF th.op = "desc" THEN "idle" ELSE "args",
             !.pos = 0,
             !.op = IF th.op = "desc" THEN "none" ELSE th.op,
             !.steps = IF th.op = "desc" THEN th.steps
                       ELSE Append(th.steps, "desc"),
             !.dsc = [addr |-> desc_result(T, t), via |-> via,
                      seen |-> snapshot]]

\* a new-expression is left: the locals of operator new are gone
Left(th) == IdleThread

\* ---------------------------------------------------------------- desc()
\* a thread asks for T's descriptor
CallDesc(t) ==
  /\ ~aborted
  /\ thr[t].pc = "idle"
  /\ thr' = [thr EXCEPT ![t] = [IdleThread EXCEPT !.pc = "desc_enter",
                                                  !.op = "desc"]]
  /\ UNCHANGED <<build, aborted, descVars, memVars, hook>>

\* the thread reaches the declaration of the static
DescEnter(t) ==
  /\ ~aborted
  /\ thr[t].pc = "desc_enter"
  /\ IF guard = "done"
       THEN /\ UNCHANGED descVars
            /\ thr' = [thr EXCEPT ![t] = Returned(thr[t], t, "fast", descObj)]
       ELSE IF StaticInitMustRun(guard)
         THEN /\ guard' = "running"
              /\ UNCHANGED <<descObj, constructions>>
              /\ thr' = [thr EXCEPT ![t].pc = "desc_init", ![t].pos = 0]
         ELSE /\ UNCHANGED descVars
              /\ thr' = [thr EXCEPT ![t].pc = "desc_wait"]
  /\ UNCHANGED <<build, aborted, memVars, hook>>

\* the initialising thread stores the next field; after the last one the
\* static counts as initialised and the call returns its address
DescInit(t) ==
  /\ ~aborted
  /\ thr[t].pc = "desc_init"
  /\ LET k == thr[t].pos + 1 IN
       /\ descObj' = [descObj EXCEPT ![k] = DescriptorInit(T)[k]]
       /\ IF k = NFields
            THEN /\ guard' = "done"
                 /\ constructions' = constructions + 1
                 /\ thr' = [thr EXCEPT
                      ![t] = Returned(thr[t], t, "init", descObj')]
            ELSE /\ UNCHANGED <<guard, constructions>>
                 /\ thr' = [thr EXCEPT ![t].pos = k]
  /\ UNCHANGED <<build, aborted, memVars, hook>>

\* a thread that waited for the initialisation continues once it is done
DescWake(t) ==
  /\ ~aborted
  /\ thr[t].pc = "desc_wait"
  /\ guard = "done"
  /\ thr' = [thr EXCEPT ![t] = Returned(thr[t], t, "wait", descObj)]
  /\ UNCHANGED <<build, aborted, descVars, memVars, hook>>

\* ------------------------------------------------------- new-expressions
\* new T / new (rt) T / new (alloc) T / new (req_size) T: operator new is
\* entered; the oversized overload first checks its assert
CallNew(t, e, a) ==
  /\ ~aborted
  /\ thr[t].pc = "idle"
  /\ e \in EntryPoints(T)
  /\ a \in EntryArgs(e)
  /\ Len(objects) + InFlight < MaxObjects
  /\ IF e = "cown_sized" /\ assertsEnabled
        /\ ~SizedAssertHolds(SizeofT, a.req)
       THEN /\ aborted' = TRUE
            /\ thr' = [thr EXCEPT ![t] = [IdleThread EXCEPT !.pc = "aborted",
                                                            !.op = e,
                                                            !.arg = a]]
       ELSE /\ UNCHANGED aborted
            /\ thr' = [thr EXCEPT ![t] = [IdleThread EXCEPT !.pc = "args",
                                                            !.op = e,
                                                            !.arg = a]]
  /\ UNCHANGED <<build, descVars, memVars, hook>>

\* the desc() argument of the collaborator call is evaluated
EvalDesc(t) ==
  /\ ~aborted
  /\ thr[t].pc = "args"
  /\ thr[t].dsc = NoRet
  /\ thr' = [thr EXCEPT ![t].pc = "desc_enter"]
  /\ UNCHANGED <<build, aborted, descVars, memVars, hook>>

\* the alloc argument of register_object is evaluated (owner entry points;
\* the order of the two arguments is unspecified).  An allocator that
\* cannot satisfy the request returns nullptr or does not return at all.
EvalAlloc(t, outcome) ==
  /\ ~aborted
  /\ thr[t].pc = "args"
  /\ thr[t].op \in OwnerEntryPoints
  /\ thr[t].mem = NoMem
  /\ outcome \in {"block", "null", "throw"}
  /\ IF outcome = "throw"
       THEN /\ thr' = [thr EXCEPT ![t] = Left(thr[t])]
       ELSE /\ thr' = [thr EXCEPT
                 ![t].mem = IF outcome = "block"
                              THEN [size |-> AllocRequest(thr[t].op,
                                                          thr[t].arg),
                                    state |-> "block"]
                              ELSE NullMem,
                 ![t].steps = Append(thr[t].steps, "alloc")]
  /\ UNCHANGED <<build, aborted, descVars, memVars, hook>>

\* the point at which operator new has produced its result and the
\* constructor of T may start
OperatorNewReturnedEarly(th) ==
  th.pc = "ctor" \/ (th.pc = "args" /\ th.mem # NoMem /\ th.dsc # NoRet)

OperatorNewReturned(th) == th.pc = "ctor"

\* Object::register_object(alloc result, desc()) of the owner entry points
Register(t) ==
  /\ ~aborted
  /\ thr[t].pc = "args"
  /\ thr[t].op \in OwnerEntryPoints
  /\ thr[t].mem # NoMem
  /\ thr[t].dsc # NoRet
  /\ objects' = Append(objects,
       register_object(thr[t].mem,
                       DescArg(T, thr[t].op, thr[t].dsc.addr),
                       "cown"))
  /\ thr' = [thr EXCEPT ![t].pc = "ctor",
                        ![t].obj = Len(objects) + 1,
                        ![t].steps = Append(thr[t].steps, "register")]
  /\ UNCHANGED <<build, aborted, descVars, regions, hook>>

\* api::create_object(desc()): the collaborator takes desc->size bytes for
\* the current region, registers them and returns the object, or reports
\* an allocation failure
CreateObject(t, ok) ==
  /\ ~aborted
  /\ thr[t].pc = "args"
  /\ thr[t].op = "plain"
  /\ thr[t].dsc # NoRet
  /\ IF ok
       THEN /\ objects' = Append(objects,
                 register_object(
                   [size |-> thr[t].dsc.seen[1], state |-> "block"],
                   DescArg(T, "plain", thr[t].dsc.addr), "object"))
            /\ thr' = [thr EXCEPT
                 ![t].pc = "ctor",
                 ![t].obj = Len(objects) + 1,
                 ![t].mem = [size |-> thr[t].dsc.seen[1], state |-> "block"],
                 ![t].steps = thr[t].steps \o <<"alloc", "register">>]
       ELSE /\ UNCHANGED objects
            /\ thr' = [thr EXCEPT ![t] = Left(thr[t])]
  /\ UNCHANGED <<build, aborted, descVars, regions, hook>>

\* api::create_fresh_region<V>(rt, desc()): as create_object, in a new
\* region of kind rt whose root is the new object
CreateFreshRegion(t, ok) ==
  /\ ~aborted
  /\ thr[t].pc = "args"
  /\ thr[t].op = "region"
  /\ thr[t].dsc # NoRet
  /\ IF ok
       THEN /\ objects' = Append(objects,
                 [register_object(
                    [size |-> thr[t].dsc.seen[1], state |-> "block"],
                    DescArg(T, "region", thr[t].dsc.addr), "object")
                  EXCEPT !.region = Len(regions) + 1, !.root = TRUE])
            /\ regions' = Append(regions,
                 [kind |-> thr[t].arg.rt, root |-> Len(objects) + 1])
            /\ thr' = [thr EXCEPT
                 ![t].pc = "ctor",
                 ![t].obj = Len(objects) + 1,
                 ![t].mem = [size |-> thr[t].dsc.seen[1], state |-> "block"],
                 ![t].steps = thr[t].steps \o <<"alloc", "register">>]
       ELSE /\ UNCHANGED <<objects, regions>>
            /\ thr' = [thr EXCEPT ![t] = Left(thr[t])]
  /\ UNCHANGED <<build, aborted, descVars, hook>>

\* the constructor of T runs on what operator new returned, and either
\* completes (the new-expression yields the object) or throws
Ctor(t, throws) ==
  /\ ~aborted
  /\ OperatorNewReturned(thr[t])
  /\ IF throws
       THEN /\ UNCHANGED objects
            /\ thr' = [thr EXCEPT
                 ![t].pc = "unwind",
                 ![t].steps = Append(thr[t].steps, "ctor")]
       ELSE /\ objects' = IF thr[t].obj \in DOMAIN objects
                            THEN [objects EXCEPT
                                    ![thr[t].obj].constructed = TRUE]
                            ELSE objects
            /\ thr' = [thr EXCEPT ![t] = Left(thr[t])]
  /\ UNCHANGED <<build, aborted, descVars, regions, hook>>

\* ------------------------------------------------------- operator delete
\* the exception of a throwing constructor unwinds through the matching
\* operator delete and leaves the new-expression
Unwind(t) ==
  /\ ~aborted
  /\ thr[t].pc = "unwind"
  /\ objects' = operator_delete(objects, MatchingDelete(thr[t].op),
                                thr[t].obj)
  /\ thr' = [thr EXCEPT ![t] = Left(thr[t])]
  /\ UNCHANGED <<build, aborted, descVars, regions, hook>>

\* user code calls one of the overloads itself, with any pointer
OperatorDelete(t, p) ==
  /\ ~aborted
  /\ thr[t].pc = "idle"
  /\ p \in 0..Len(objects)
  /\ objects' \in {operator_delete(objects, v, p) : v \in DeleteOverloads}
  /\ UNCHANGED <<build, aborted, descVars, thr, regions, hook>>

\* ------------------------------------------------ the runtime's callbacks
\* what the runtime finds behind the descriptor pointer of an object
Descriptor(addr) ==
  IF addr = DescAddr(T.base) THEN descObj ELSE EmptyDescriptor

Live(o) ==
  /\ o \in DOMAIN objects
  /\ ~objects[o].null
  /\ objects[o].destroyCalls = 0

\* desc->trace(o, st)
InvokeTrace(o, st) ==
  /\ ~aborted
  /\ Live(o)
  /\ Descriptor(objects[o].desc)[2] = "gc_trace"
  /\ LET r == gc_trace(T, o, st) IN
       hook' = [fn |-> "trace_fn", args |-> <<o, st>>,
                called |-> r.called, out |-> r.out]
  /\ UNCHANGED <<build, aborted, descVars, thr, memVars>>

\* desc->notified(o)
InvokeNotified(o) ==
  /\ ~aborted
  /\ Live(o)
  /\ Descriptor(objects[o].desc)[4] = "gc_notified"
  /\ LET r == gc_notified(T, o) IN
       hook' = [fn |-> "notify_fn", args |-> <<o>>,
                called |-> r.called, out |-> r.out]
  /\ UNCHANGED <<build, aborted, descVars, thr, memVars>>

\* desc->finaliser(o, region, sub_regions)
InvokeFinal(o, region, sub_regions) ==
  /\ ~aborted
  /\ Live(o)
  /\ Descriptor(objects[o].desc)[3] = "gc_final"
  /\ LET r == gc_final(T, o, region, sub_regions) IN
       hook' = [fn |-> "finalize_fn", args |-> <<o, region, sub_regions>>,
                called |-> r.called, out |-> r.out]
  /\ UNCHANGED <<build, aborted, descVars, thr, memVars>>

\* desc->destructor(o): the one call the runtime makes when it tears the
\* object down
InvokeDestroy(o) ==
  /\ ~aborted
  /\ Live(o)
  /\ Descriptor(objects[o].desc)[5] = "gc_destructor"
  /\ objects' = [objects EXCEPT
       ![o] = [gc_destructor(objects[o]) EXCEPT !.destroyCalls = @ + 1]]
  /\ hook' = [fn |-> "destroy_fn", args |-> <<o>>,
              called |-> [method |-> "T::~T", self |-> o, args |-> <<>>],
              out |-> <<>>]
  /\ UNCHANGED <<build, aborted, descVars, thr, regions>>

\* --------------------------------------------------------- specifications
Next ==
  \/ \E t \in DOMAIN thr : CallDesc(t)
  \/ \E t \in DOMAIN thr : DescEnter(t)
  \/ \E t \in DOMAIN thr : DescInit(t)
  \/ \E t \in DOMAIN thr, e \in AllEntryPoints :
       \E a \in EntryArgs(e) : CallNew(t, e, a)
  \/ \E t \in DOMAIN thr : EvalDesc(t)
  \/ \E t \in DOMAIN thr, outcome \in {"block", "null", "throw"} :
       EvalAlloc(t, outcome)
  \/ \E t \in DOMAIN thr : Register(t)
  \/ \E t \in DOMAIN thr, ok \in BOOLEAN : CreateObject(t, ok)
  \/ \E t \in DOMAIN thr, ok \in BOOLEAN : CreateFreshRegion(t, ok)
  \/ \E t \in DOMAIN thr, throws \in BOOLEAN : Ctor(t, throws)
  \/ \E t \in DOMAIN thr : Unwind(t)
  \/ \E t \in DOMAIN thr, p \in 0..MaxObjects : OperatorDelete(t, p)
  \/ \E o \in 1..MaxObjects, st \in Stacks : InvokeTrace(o, st)
  \/ \E o \in 1..MaxObjects : InvokeNotified(o)
  \/ \E o \in 1..MaxObjects, r \in RegionArgs, st \in Stacks :
       InvokeFinal(o, r, st)
  \/ \E o \in 1..MaxObjects : InvokeDestroy(o)

Spec == Init /\ [][Next]_vars

NextDesc ==
  \/ \E t \in DOMAIN thr : CallDesc(t)
  \/ \E t \in DOMAIN thr : DescEnter(t)
  \/ \E t \in DOMAIN thr : DescInit(t)
  \/ \E t \in DOMAIN thr : DescWake(t)

SpecDesc == InitDesc /\ [][NextDesc]_vars

\* ------------------------------------------------------------------ claims
Range(seq) == {seq[i] : i \in DOMAIN seq}

Before(seq, a, b) ==
  \E i, j \in DOMAIN seq : i < j /\ seq[i] = a /\ seq[j] = b

\* C1: when several threads request T's descriptor concurrently for the
\* first time, the static is initialised at most once (exactly once as soon
\* as any call has returned), every caller receives the same address, and
\* the descriptor a caller finds behind it is complete: its size and its
\* trace_fn are set, and it equals the descriptor as it stands.
C1_SingleFlight ==
  /\ constructions <= 1
  /\ guard = "done" => constructions = 1
  /\ \A t \in DOMAIN thr :
       thr[t].dsc # NoRet =>
         /\ constructions = 1
         /\ thr[t].dsc.addr = DescAddr(T.base)
         /\ thr[t].dsc.seen[1] > 0
         /\ thr[t].dsc.seen[2] # NULL
         /\ thr[t].dsc.seen = descObj
  /\ \A t, u \in DOMAIN thr :
       (thr[t].dsc # NoRet /\ thr[u].dsc # NoRet) =>
         thr[t].dsc.addr = thr[u].dsc.addr

\* one thread initialised the static while another waited for it, and both
\* calls have returned
C1_Witness ==
  \E t, u \in DOMAIN thr :
    /\ t # u
    /\ thr[t].dsc.via = "init"
    /\ thr[u].dsc.via = "wait"

\* C2: every desc() call returns the address of the one static of T,
\* whatever requests, allocations, deallocations and callbacks came before,
\* and once the descriptor is built no step changes any of its fields.
C2_StableIdentity ==
  [][/\ \A t \in DOMAIN thr :
          thr'[t].dsc # NoRet => thr'[t].dsc.addr = DescAddr(T.base)
     /\ guard = "done" =>
          /\ guard' = "done"
          /\ descObj' = descObj
          /\ constructions' = constructions]_vars

\* a later desc() call returned (by the path of an initialised static)
\* after an object had been allocated and torn down or traced
C2_Witness ==
  /\ \E t \in DOMAIN thr : thr[t].dsc.via = "fast"
  /\ Len(objects) >= 1
  /\ hook.fn # "none"

\* C3: in T's descriptor trace_fn is non-null, finalize_fn is non-null
\* exactly when T declares a member named finaliser, and notify_fn is
\* non-null exactly when T declares a member named notified.
C3_HooksIffDeclared ==
  guard = "done" =>
    /\ descObj[2] # NULL
    /\ (descObj[3] # NULL) <=> Declares(T.finaliser)
    /\ (descObj[4] # NULL) <=> Declares(T.notified)

\* C4: destroy_fn is null exactly when T is trivially destructible, and
\* every invocation of destroy_fn on an object ran T's destructor on that
\* object exactly once.
C4_Destroy ==
  /\ guard = "done" => ((descObj[5] = NULL) <=> T.trivial)
  /\ \A o \in DOMAIN objects :
       objects[o].dtorRuns = objects[o].destroyCalls

\* the runtime has invoked destroy_fn on an object of a T with a
\* non-trivial destructor
C4_Witness ==
  /\ ~T.trivial
  /\ \E o \in DOMAIN objects : objects[o].destroyCalls = 1

\* C5: an oversized request of at least the descriptor's size is served
\* with a block of the requested size; a smaller one is rejected fatally
\* and neither allocates nor registers anything.
C5_OversizedPrecondition ==
  /\ \A t \in DOMAIN thr :
       thr[t].op = "cown_sized" =>
         IF thr[t].arg.req >= vsizeof
           THEN thr[t].pc # "aborted"
           ELSE thr[t].pc = "aborted" /\ thr[t].mem = NoMem
  /\ \A t \in DOMAIN thr :
       (thr[t].op = "cown_sized" /\ thr[t].obj # 0) =>
         objects[thr[t].obj].size >= vsizeof

\* C6: when the allocator cannot satisfy a request, the entry point does
\* not carry on with the failed result and nothing is registered for it.
C6_FailureReported ==
  /\ \A t \in DOMAIN thr : thr[t].mem # NullMem
  /\ \A o \in DOMAIN objects : ~objects[o].null

\* C7: every object a successful allocation returned is tagged with the
\* address desc() returns for T; one allocated by the fresh-region entry
\* point is the root of a region created for it, of the kind requested.
C7_Tagged ==
  /\ \A o \in DOMAIN objects :
       ~objects[o].null =>
         /\ objects[o].desc = DescAddr(T.base)
         /\ objects[o].kind = (IF T.base = "Cown" THEN "cown" ELSE "object")
  /\ \A t \in DOMAIN thr :
       (thr[t].op = "region" /\ thr[t].obj # 0) =>
         LET o == thr[t].obj IN
           /\ objects[o].root
           /\ objects[o].region \in DOMAIN regions
           /\ regions[objects[o].region].root = o
           /\ regions[objects[o].region].kind = thr[t].arg.rt
           /\ \A p \in DOMAIN objects :
                objects[p].region = objects[o].region => p = o
  /\ \A r \in DOMAIN regions :
       /\ regions[r].root \in DOMAIN objects
       /\ objects[regions[r].root].root
       /\ objects[regions[r].root].region = r

\* an object allocated as the root of a fresh region has been constructed
C7_Witness ==
  \E o \in DOMAIN objects :
    /\ objects[o].root
    /\ objects[o].constructed
    /\ objects[o].desc = DescAddr("Object")

\* C8: a call of an operator delete overload, by user code or by the
\* unwinding of a throwing constructor, changes neither the registered
\* objects nor the regions nor the descriptor; the destructor of an object
\* runs, and an object is released, only in a step in which the runtime
\* invokes destroy_fn on it.
C8_DeleteIsNoOp ==
  [][/\ ((\E t \in DOMAIN thr, p \in 0..MaxObjects : OperatorDelete(t, p))
         \/ \E t \in DOMAIN thr : Unwind(t))
          => UNCHANGED <<objects, regions, guard, descObj, constructions>>
     /\ \A o \in DOMAIN objects :
          (\/ objects'[o].dtorRuns # objects[o].dtorRuns
           \/ objects'[o].freed # objects[o].freed)
            => InvokeDestroy(o)]_vars

\* a constructor threw, the matching operator delete ran, and the object
\* is still registered, not released and not torn down
C8_Witness ==
  /\ \A t \in DOMAIN thr : thr[t].pc = "idle"
  /\ \E o \in DOMAIN objects :
       /\ ~objects[o].constructed
       /\ ~objects[o].freed
       /\ objects[o].dtorRuns = 0

\* C9: within a new-expression the memory is obtained before it is
\* registered and registered before the constructor runs; while the
\* constructor runs or unwinds the object is a registered one, tagged with
\* a descriptor; and the runtime invokes callbacks on registered objects
\* only.
C9_RegisterBeforeCtor ==
  /\ \A t \in DOMAIN thr :
       /\ "ctor" \in Range(thr[t].steps) =>
            Before(thr[t].steps, "register", "ctor")
       /\ "register" \in Range(thr[t].steps) =>
            Before(thr[t].steps, "alloc", "register")
       /\ thr[t].pc \in {"ctor", "unwind"} =>
            /\ thr[t].obj \in DOMAIN objects
            /\ objects[thr[t].obj].desc # NULL
            /\ Before(thr[t].steps, "alloc", "register")
  /\ \A o \in DOMAIN objects : objects[o].desc # NULL
  /\ hook.fn # "none" => hook.args[1] \in DOMAIN objects

\* the constructor of T has run on a registered object and thrown
C9_Witness ==
  \E t \in DOMAIN thr :
    /\ thr[t].pc = "unwind"
    /\ "ctor" \in Range(thr[t].steps)

\* C10: notify_fn(o) calls T::notified on o with the argument o;
\* finalize_fn(o, region, sub_regions) calls T::finaliser on o with region
\* and sub_regions; trace_fn(o, st) calls trace on o with st, T's own trace
\* if T defines one, and otherwise leaves st as it was.
C10_Dispatch ==
  /\ hook.fn = "notify_fn" =>
       hook.called = [method |-> "T::notified", self |-> hook.args[1],
                      args |-> <<hook.args[1]>>]
  /\ hook.fn = "finalize_fn" =>
       hook.called = [method |-> "T::finaliser", self |-> hook.args[1],
                      args |-> <<hook.args[2], hook.args[3]>>]
  /\ hook.fn = "trace_fn" =>
       /\ hook.called.self = hook.args[1]
       /\ hook.called.args = <<hook.args[2]>>
       /\ T.trace => hook.called.method = "T::trace"
       /\ ~T.trace => hook.out = hook.args[2]

\* the runtime has invoked finalize_fn on an object of a T with both hooks
C10_Witness ==
  /\ T.notified = "single"
  /\ T.finaliser = "single"
  /\ hook.fn = "finalize_fn"
====
